---- MODULE Spec2Model ----
(***************************************************************************)
(* Cross-Account AWS Access Test API (src/app.py).                         *)
(*                                                                         *)
(* Each request slot r runs one handler invocation.  A handler advances in *)
(* steps that end at its outbound calls (sts:AssumeRole,                   *)
(* sts:GetCallerIdentity, the proxied HTTP request, s3:PutObject); the     *)
(* outcome of every outbound call is chosen by the environment.  Steps of  *)
(* different requests interleave freely, which is at least as fine as the  *)
(* event loop's scheduling of the async handlers.                          *)
(***************************************************************************)
EXTENDS Integers, Sequences, FiniteSets, TLC

\* ------------------------------------------------------------------ bounds
NumReq == 2

Req == 1..NumReq

\* ------------------------------------------------------------------- state
VARIABLES
    task,       \* per request: position and the handler's local variables
    calls,      \* per request: the outbound calls issued, in order, with outcome
    responses,  \* per request: the HTTP responses delivered to the client
    log         \* the process-wide logger's records, by the request that wrote them

vars == <<task, calls, responses, log>>

\* ------------------------------------------------------ Python-level values
\* Python's None, and the truthiness test `if x:` on an Optional[str].
NONE == "<None>"

Truthy(s) == s # NONE /\ s # ""

\* Text is a sequence of fragments; an f-string concatenates fragments.
Contains(text, sub) ==
    \E i \in 1..(Len(text) - Len(sub) + 1) : SubSeq(text, i, i + Len(sub) - 1) = sub

StatusText(n) ==
    CASE n = 200 -> "200"
      [] n = 400 -> "400"
      [] n = 403 -> "403"
      [] n = 500 -> "500"
      [] OTHER -> "???"

\* Exceptions: class, HTTP status (HTTPException only) and message text.
Exc(cls, text) == [cls |-> cls, status_code |-> 0, detail |-> text]

HTTPException(status_code, detail) ==
    [cls |-> "HTTPException", status_code |-> status_code, detail |-> detail]

NoExc == Exc("<none>", <<>>)

\* str(e): an HTTPException prints as "<status_code>: <detail>", any other
\* exception as its message.
Str(e) ==
    IF e.cls = "HTTPException"
    THEN <<StatusText(e.status_code), ": ">> \o e.detail
    ELSE e.detail

\* isinstance(e, requests.exceptions.RequestException)
IsRequestException(e) == e.cls \in {"ConnectionError", "ReadTimeout"}

\* ------------------------------------------------------------ request data
DefaultRegion == "ap-northeast-1"

RoleArns == {"arn:aws:iam::222222222222:role/cross-account"}

ArnInputs == {NONE, ""} \cup RoleArns

Urls == {"https://abc.execute-api.ap-northeast-1.amazonaws.com/prod/items"}

\* urlparse(url).netloc
Netloc(url) == "abc.execute-api.ap-northeast-1.amazonaws.com"

Bodies == {NONE, "{\"k\": 1}"}

\* The payloads of /apigw and /debug-apigw: every kind of role ARN without a
\* body, and one payload with a body.
APIGatewayRequest ==
    [api_gateway_url : Urls, method : {"POST"}, body : {NONE},
     region : {DefaultRegion}, assume_role_arn : ArnInputs]
    \cup [api_gateway_url : Urls, method : {"POST"}, body : Bodies \ {NONE},
          region : {DefaultRegion}, assume_role_arn : {NONE}]

NoRequest == [absent |-> TRUE]

\* ------------------------------------------------------------- credentials
Creds(ak, sk, tok) == [access_key |-> ak, secret_key |-> sk, token |-> tok]

NoCreds == Creds(NONE, NONE, NONE)

\* Long-term keys of the default chain (no session token).
DefaultCreds == Creds("AKIADEFAULT", "default-secret", NONE)

\* What the default credential chain can yield: nothing, or credentials.
ChainOutcomes == {NoCreds, DefaultCreds}

\* sts.assume_role: a response carrying temporary credentials, or an error.
StsOutcomes ==
    {[ok |-> TRUE,
      Credentials |-> [AccessKeyId |-> "ASIAROLE", SecretAccessKey |-> "role-secret",
                       SessionToken |-> "role-token"],
      exc |-> NoExc],
     [ok |-> FALSE,
      Credentials |-> [AccessKeyId |-> NONE, SecretAccessKey |-> NONE,
                       SessionToken |-> NONE],
      exc |-> Exc("ClientError", <<"AccessDenied: not authorized to perform sts:AssumeRole">>)]}

NoSts ==
    [ok |-> FALSE,
     Credentials |-> [AccessKeyId |-> NONE, SecretAccessKey |-> NONE, SessionToken |-> NONE],
     exc |-> NoExc]

\* The dependencies get_credentials(arn) consults: STS when a role ARN is
\* given, the default chain otherwise.
StsFor(arn) == IF Truthy(arn) THEN StsOutcomes ELSE {NoSts}

ChainFor(arn) == IF Truthy(arn) THEN {NoCreds} ELSE ChainOutcomes

\* Clients: built from the default chain, or from explicit credentials.
DefaultClient == [source |-> "default-chain", creds |-> NoCreds]

ExplicitClient(c) == [source |-> "explicit", creds |-> c]

NoClient == [source |-> "<none>", creds |-> NoCreds]

Call(op, client, args) == [op |-> op, client |-> client, args |-> args]

\* An issued call together with what the dependency answered.
Issued(call, answer) ==
    [op |-> call.op, client |-> call.client, args |-> call.args, ok |-> answer.ok,
     answer |-> answer]

\* Result of a helper: the outbound calls it issued, what it logged, and
\* either the exception it raised or the value it returned.
Raise(cs, lg, e) == [calls |-> cs, logs |-> lg, raised |-> TRUE, exc |-> e, value |-> NoCreds]

Return(cs, lg, v) == [calls |-> cs, logs |-> lg, raised |-> FALSE, exc |-> NoExc, value |-> v]

AssumeRoleCall(arn, prefix) ==
    Call("sts:AssumeRole", DefaultClient, [RoleArn |-> arn, RoleSessionName |-> prefix])

\* get_credentials(assume_role_arn), given what sts.assume_role and the
\* default chain would answer.
\* boto3.Session().get_credentials(): the lookup in the default chain.
ChainLookup(chain) ==
    Issued(Call("Session.get_credentials", DefaultClient, [none |-> TRUE]),
           [ok |-> chain # NoCreds, creds |-> chain, exc |-> NoExc])

\* Variants of get_credentials with a slip in them.
\* The session token of the STS response is dropped.
get_credentials_no_token(assume_role_arn, sts, chain) ==
    IF Truthy(assume_role_arn)
    THEN LET c == Issued(AssumeRoleCall(assume_role_arn, "cross-account-test-"), sts)
         IN  IF sts.ok
             THEN Return(<<c>>, {},
                         Creds(sts.Credentials.AccessKeyId, sts.Credentials.SecretAccessKey, NONE))
             ELSE Raise(<<c>>, {[line |-> 52, text |-> <<"Failed to assume role: ">> \o Str(sts.exc)]},
                        HTTPException(500, <<"Failed to assume role: ">> \o Str(sts.exc)))
    ELSE IF chain = NoCreds
         THEN Raise(<<ChainLookup(chain)>>, {}, HTTPException(500, <<"No AWS credentials found">>))
         ELSE Return(<<ChainLookup(chain)>>, {}, chain)

\* A failed assume_role is tried a second time.
get_credentials_retry(assume_role_arn, sts, chain) ==
    IF Truthy(assume_role_arn)
    THEN LET c == Issued(AssumeRoleCall(assume_role_arn, "cross-account-test-"), sts)
         IN  IF sts.ok
             THEN Return(<<c>>, {},
                         Creds(sts.Credentials.AccessKeyId,
                               sts.Credentials.SecretAccessKey,
                               sts.Credentials.SessionToken))
             ELSE Raise(<<c, c>>, {[line |-> 52, text |-> <<"Failed to assume role: ">> \o Str(sts.exc)]},
                        HTTPException(500, <<"Failed to assume role: ">> \o Str(sts.exc)))
    ELSE IF chain = NoCreds
         THEN Raise(<<ChainLookup(chain)>>, {}, HTTPException(500, <<"No AWS credentials found">>))
         ELSE Return(<<ChainLookup(chain)>>, {}, chain)

\* Credentials are kept in a process-wide cache: once any request holds
\* credentials, every later call returns those.
get_credentials_cached(assume_role_arn, sts, chain) ==
    IF \E q \in Req : task[q].credentials # NoCreds
    THEN Return(<<>>, {}, task[CHOOSE q \in Req : task[q].credentials # NoCreds].credentials)
    ELSE IF Truthy(assume_role_arn)
    THEN LET c == Issued(AssumeRoleCall(assume_role_arn, "cross-account-test-"), sts)
         IN  IF sts.ok
             THEN Return(<<c>>, {},
                         Creds(sts.Credentials.AccessKeyId,
                               sts.Credentials.SecretAccessKey,
                               sts.Credentials.SessionToken))
             ELSE Raise(<<c>>, {[line |-> 52, text |-> <<"Failed to assume role: ">> \o Str(sts.exc)]},
                        HTTPException(500, <<"Failed to assume role: ">> \o Str(sts.exc)))
    ELSE IF chain = NoCreds
         THEN Raise(<<ChainLookup(chain)>>, {}, HTTPException(500, <<"No AWS credentials found">>))
         ELSE Return(<<ChainLookup(chain)>>, {}, chain)

\* A failed assume_role falls back to the default chain's credentials.
get_credentials_fallback(assume_role_arn, sts, chain) ==
    IF Truthy(assume_role_arn)
    THEN LET c == Issued(AssumeRoleCall(assume_role_arn, "cross-account-test-"), sts)
         IN  IF sts.ok
             THEN Return(<<c>>, {},
                         Creds(sts.Credentials.AccessKeyId,
                               sts.Credentials.SecretAccessKey,
                               sts.Credentials.SessionToken))
             ELSE Return(<<c, ChainLookup(DefaultCreds)>>, {}, DefaultCreds)
    ELSE IF chain = NoCreds
         THEN Raise(<<ChainLookup(chain)>>, {}, HTTPException(500, <<"No AWS credentials found">>))
         ELSE Return(<<ChainLookup(chain)>>, {}, chain)

get_credentials(assume_role_arn, sts, chain) ==
    IF Truthy(assume_role_arn)
    THEN LET c == Issued(AssumeRoleCall(assume_role_arn, "cross-account-test-"), sts)
         IN  IF sts.ok
             THEN Return(<<c>>, {},
                         Creds(sts.Credentials.AccessKeyId,
                               sts.Credentials.SecretAccessKey,
                               sts.Credentials.SessionToken))
             ELSE Raise(<<c>>, {[line |-> 52, text |-> <<"Failed to assume role: ">> \o Str(sts.exc)]},
                        HTTPException(500, <<"Failed to assume role: ">> \o Str(sts.exc)))
    ELSE IF chain = NoCreds
         THEN Raise(<<ChainLookup(chain)>>, {}, HTTPException(500, <<"No AWS credentials found">>))
         ELSE Return(<<ChainLookup(chain)>>, {}, chain)

\* ------------------------------------------------------------ SigV4 signing
NoAuth == [access_key |-> NONE, region |-> NONE, service |-> NONE, signing_key |-> NONE]

\* AWSRequest(method, url, data, headers) with headers Host and Content-Type.
AWSRequest(request) ==
    [method |-> request.method, url |-> request.api_gateway_url, data |-> request.body,
     headers |-> [Host |-> Netloc(request.api_gateway_url),
                  ContentType |-> IF Truthy(request.body) THEN "application/json" ELSE "text/plain",
                  XAmzSecurityToken |-> NONE,
                  Authorization |-> NoAuth]]

NoAwsRequest ==
    [method |-> NONE, url |-> NONE, data |-> NONE,
     headers |-> [Host |-> NONE, ContentType |-> NONE, XAmzSecurityToken |-> NONE,
                  Authorization |-> NoAuth]]

\* SigV4Auth(credentials, service, region).add_auth(aws_request): the
\* Authorization header names the access key and the scope and is keyed by
\* the secret key; the session token travels in its own header when present.
SigV4Auth_add_auth(credentials, service, region, aws_request) ==
    [aws_request EXCEPT
       !.headers.XAmzSecurityToken = IF Truthy(credentials.token) THEN credentials.token ELSE NONE,
       !.headers.Authorization = [access_key |-> credentials.access_key, region |-> region,
                                  service |-> service, signing_key |-> credentials.secret_key]]

\* ------------------------------------------------------- the proxied request
ProxyTimeout == 30

UpstreamReply(code, text) ==
    [ok |-> TRUE, status_code |-> code, headers |-> [ContentType |-> "application/json"],
     text |-> text, exc |-> NoExc]

UpstreamError(cls, text) ==
    [ok |-> FALSE, status_code |-> 0, headers |-> [ContentType |-> NONE], text |-> NONE,
     exc |-> Exc(cls, <<text>>)]

\* What requests.request can do: a reply of any status, or a RequestException.
HttpOutcomes ==
    {UpstreamReply(200, "{\"items\": []}"),
     UpstreamReply(403, "{\"message\": \"Forbidden\"}"),
     UpstreamReply(500, "{\"message\": \"Internal server error\"}"),
     UpstreamError("ConnectionError", "Failed to establish a new connection"),
     UpstreamError("ReadTimeout", "Read timed out. (read timeout=30)")}

\* requests.request(method, url, headers=dict(aws_request.headers), data, timeout=30)
HttpCall(request, aws_request) ==
    Call("http", [source |-> "requests", creds |-> NoCreds],
         [method |-> request.method, url |-> request.api_gateway_url,
          headers |-> aws_request.headers, data |-> request.body,
          timeout |-> ProxyTimeout])

\* --------------------------------------------------------------- responses
\* How the framework answers a raised HTTPException.
Render(e) == [status |-> e.status_code, content |-> [detail |-> e.detail]]

\* Variant: an upstream error status is raised as an error of the service
\* (as response.raise_for_status() would).
call_api_gateway_return_raise(response, aws_request) ==
    IF response.status_code >= 400
    THEN [status |-> 500,
          content |-> [status_code |-> response.status_code, headers |-> response.headers,
                       body |-> response.text, request_headers_sent |-> aws_request.headers]]
    ELSE [status |-> 200,
          content |-> [status_code |-> response.status_code, headers |-> response.headers,
                       body |-> response.text, request_headers_sent |-> aws_request.headers]]

\* /apigw, lines 114-119: the handler's return value (status 200).
call_api_gateway_return(response, aws_request) ==
    [status |-> 200,
     content |-> [status_code |-> response.status_code,
                  headers |-> response.headers,
                  body |-> response.text,
                  request_headers_sent |-> aws_request.headers]]

\* Variant: the failure is reported in the body of a 200 answer.
call_api_gateway_except_swallow(e, aws_request) ==
    [status |-> 200,
     content |-> [error |-> "Request failed", detail |-> Str(e),
                  request_headers |-> aws_request.headers]]

\* /apigw, lines 121-133: the two except clauses.
call_api_gateway_except(e, aws_request) ==
    IF IsRequestException(e)
    THEN [status |-> 500,
          content |-> [error |-> "Request failed", detail |-> Str(e),
                       request_headers |-> aws_request.headers]]
    ELSE Render(HTTPException(500, Str(e)))

call_api_gateway_except_log(e) ==
    IF IsRequestException(e)
    THEN {[line |-> 122, text |-> <<"Request failed: ">> \o Str(e)]}
    ELSE {[line |-> 132, text |-> <<"Unexpected error: ">> \o Str(e)]}

\* ------------------------------------------------------------ initial state
NoIdentity == [Account |-> NONE, Arn |-> NONE, UserId |-> NONE]

IdleTask ==
    [pc |-> "idle", endpoint |-> NONE, request |-> NoRequest, credentials |-> NoCreds,
     identity |-> NoIdentity, aws_request |-> NoAwsRequest, s3_client |-> NoClient]

Init ==
    /\ task = [r \in Req |-> IdleTask]
    /\ calls = [r \in Req |-> <<>>]
    /\ responses = [r \in Req |-> <<>>]
    /\ log = [r \in Req |-> {}]

\* The handler ends: one response goes to the client.
Finish(r, t, resp, cs, lg) ==
    /\ task' = [task EXCEPT ![r] = [t EXCEPT !.pc = "done"]]
    /\ calls' = [calls EXCEPT ![r] = @ \o cs]
    /\ responses' = [responses EXCEPT ![r] = Append(@, resp)]
    /\ log' = [log EXCEPT ![r] = @ \cup lg]

\* The handler stops at its next outbound call.
Continue(r, t, cs, lg) ==
    /\ task' = [task EXCEPT ![r] = t]
    /\ calls' = [calls EXCEPT ![r] = @ \o cs]
    /\ UNCHANGED responses
    /\ log' = [log EXCEPT ![r] = @ \cup lg]

\* ------------------------------------------------------------------ GET /
root(r) ==
    /\ task[r].pc = "idle"
    /\ Finish(r, [task[r] EXCEPT !.endpoint = "/"],
              [status |-> 200,
               content |-> [message |-> "Cross-Account AWS Access Test API is running"]],
              <<>>, {})

\* ------------------------------------------------------------ POST /apigw
\* Lines 73-100: obtain credentials, build and sign the request.
call_api_gateway_sign(r) ==
    /\ task[r].pc = "idle"
    /\ \E request \in APIGatewayRequest :
       \E sts \in StsFor(request.assume_role_arn), chain \in ChainFor(request.assume_role_arn) :
         LET got == get_credentials(request.assume_role_arn, sts, chain)
             t0 == [task[r] EXCEPT !.endpoint = "/apigw", !.request = request]
             lg == {[line |-> 74, text |-> <<"Calling API Gateway: ", request.api_gateway_url>>]}
                     \cup got.logs
             cs == got.calls
         IN  IF got.raised
             THEN Finish(r, t0, call_api_gateway_except(got.exc, NoAwsRequest), cs,
                         lg \cup call_api_gateway_except_log(got.exc))
             ELSE Continue(r,
                           [t0 EXCEPT !.pc = "apigw_send",
                                      !.credentials = got.value,
                                      !.aws_request =
                                          SigV4Auth_add_auth(got.value, "execute-api",
                                                             request.region, AWSRequest(request))],
                           cs, lg)

\* Lines 103-133: send the signed request and answer.
call_api_gateway_send(r) ==
    /\ task[r].pc = "apigw_send"
    /\ \E response \in HttpOutcomes :
         LET t == task[r]
             cs == <<Issued(HttpCall(t.request, t.aws_request), response)>>
         IN  IF response.ok
             THEN Finish(r, t, call_api_gateway_return(response, t.aws_request), cs,
                         {[line |-> 111, text |-> <<"Response status: ", StatusText(response.status_code)>>],
                          [line |-> 112, text |-> <<"Response headers: ", response.headers.ContentType>>]})
             ELSE Finish(r, t, call_api_gateway_except(response.exc, t.aws_request), cs,
                         call_api_gateway_except_log(response.exc))

\* ----------------------------------------------------------- POST /bucket
\* A key that a JSON object does not hold.
ABSENT == "<absent>"

\* The form field `request`: text that is no JSON, JSON that is no object,
\* or a JSON object holding some of the keys.
FormObject(bucket_name, object_key, arn) ==
    [json |-> "object", bucket_name |-> bucket_name, object_key |-> object_key,
     region |-> ABSENT, assume_role_arn |-> arn]

Forms ==
    {[json |-> "not-json", bucket_name |-> ABSENT, object_key |-> ABSENT,
      region |-> ABSENT, assume_role_arn |-> ABSENT],
     [json |-> "array", bucket_name |-> ABSENT, object_key |-> ABSENT,
      region |-> ABSENT, assume_role_arn |-> ABSENT],
     FormObject(ABSENT, "k.txt", ABSENT),
     FormObject("bkt", ABSENT, ABSENT)}
    \cup {FormObject("bkt", "k.txt", a) : a \in {ABSENT, ""} \cup RoleArns}

Files == [content : {"file-bytes"}, content_type : {NONE}]

\* dict.get(key, default)
Get(v, default) == IF v = ABSENT THEN default ELSE v

NoUpload == [bucket_name |-> NONE, object_key |-> NONE, region |-> NONE, assume_role_arn |-> NONE]

\* Lines 146-153: json.loads and the key lookups, with the inner except that
\* turns JSONDecodeError and KeyError into HTTPException(400).
upload_to_s3_parse(form) ==
    IF form.json = "not-json"
    THEN [raised |-> TRUE, value |-> NoUpload,
          exc |-> HTTPException(400, <<"Invalid request format: ">>
                                      \o Str(Exc("JSONDecodeError", <<"Expecting value: line 1 column 1 (char 0)">>)))]
    ELSE IF form.json # "object"
    THEN [raised |-> TRUE, value |-> NoUpload,
          exc |-> Exc("TypeError", <<"list indices must be integers or slices, not str">>)]
    ELSE IF form.bucket_name = ABSENT
    THEN [raised |-> TRUE, value |-> NoUpload,
          exc |-> HTTPException(400, <<"Invalid request format: ">>
                                      \o Str(Exc("KeyError", <<"'bucket_name'">>)))]
    ELSE IF form.object_key = ABSENT
    THEN [raised |-> TRUE, value |-> NoUpload,
          exc |-> HTTPException(400, <<"Invalid request format: ">>
                                      \o Str(Exc("KeyError", <<"'object_key'">>)))]
    ELSE [raised |-> FALSE, exc |-> NoExc,
          value |-> [bucket_name |-> form.bucket_name, object_key |-> form.object_key,
                     region |-> Get(form.region, DefaultRegion),
                     assume_role_arn |-> Get(form.assume_role_arn, NONE)]]

\* Lines 195-197: the outer except clause.
upload_to_s3_except(e) == Render(HTTPException(500, Str(e)))

upload_to_s3_except_log(e) == {[line |-> 196, text |-> <<"S3 upload failed: ">> \o Str(e)]}

\* s3.put_object: the object's ETag, or an error.
PutOutcomes ==
    {[ok |-> TRUE, ETag |-> "\"9a0364b9e99bb480dd25e1f0284c8555\"", VersionId |-> ABSENT, exc |-> NoExc],
     [ok |-> FALSE, ETag |-> ABSENT, VersionId |-> ABSENT,
      exc |-> Exc("ClientError", <<"AccessDenied: not authorized to perform s3:PutObject">>)]}

\* Lines 187-193.
upload_to_s3_return(up, response) ==
    [status |-> 200,
     content |-> [message |-> "File uploaded successfully", bucket |-> up.bucket_name,
                  key |-> up.object_key, etag |-> Get(response.ETag, NONE),
                  version_id |-> Get(response.VersionId, NONE)]]

\* Lines 144-172: parse the form, assume the role when one is given, build
\* the S3 client; the handler then suspends at `await file.read()`.
upload_to_s3_client(r) ==
    /\ task[r].pc = "idle"
    /\ \E form \in Forms, file \in Files :
       \E sts \in StsFor(upload_to_s3_parse(form).value.assume_role_arn) :
         LET parsed == upload_to_s3_parse(form)
             up == parsed.value
             t0 == [task[r] EXCEPT !.endpoint = "/bucket",
                                   !.request = [form |-> form, file |-> file]]
             lg == {[line |-> 155, text |-> <<"Uploading to S3: ", up.bucket_name, "/", up.object_key>>]}
             c == AssumeRoleCall(up.assume_role_arn, "s3-upload-")
         IN  IF parsed.raised
             THEN Finish(r, t0, upload_to_s3_except(parsed.exc), <<>>,
                         upload_to_s3_except_log(parsed.exc))
             ELSE IF Truthy(up.assume_role_arn)
             THEN IF sts.ok
                  THEN Continue(r,
                                [t0 EXCEPT !.pc = "bucket_put",
                                           !.s3_client =
                                               ExplicitClient(Creds(sts.Credentials.AccessKeyId,
                                                                    sts.Credentials.SecretAccessKey,
                                                                    sts.Credentials.SessionToken))],
                                <<Issued(c, sts)>>, lg)
                  ELSE Finish(r, t0, upload_to_s3_except(sts.exc), <<Issued(c, sts)>>,
                              lg \cup upload_to_s3_except_log(sts.exc))
             ELSE Continue(r, [t0 EXCEPT !.pc = "bucket_put", !.s3_client = DefaultClient],
                           <<>>, lg)

\* Lines 175-197: read the file, put the object and answer.
upload_to_s3_put(r) ==
    /\ task[r].pc = "bucket_put"
    /\ \E response \in PutOutcomes :
         LET t == task[r]
             up == upload_to_s3_parse(t.request.form).value
             file == t.request.file
             c == Call("s3:PutObject", t.s3_client,
                       [Bucket |-> up.bucket_name, Key |-> up.object_key,
                        Body |-> file.content, region |-> up.region,
                        ContentType |-> IF Truthy(file.content_type) THEN file.content_type
                                        ELSE "application/octet-stream"])
         IN  IF response.ok
             THEN Finish(r, t, upload_to_s3_return(up, response), <<Issued(c, response)>>,
                         {[line |-> 185, text |-> <<"Upload successful: ", response.ETag>>]})
             ELSE Finish(r, t, upload_to_s3_except(response.exc), <<Issued(c, response)>>,
                         upload_to_s3_except_log(response.exc))

\* ------------------------------------------------- GET /test-credentials
\* The principals behind the two kinds of credentials.
DefaultIdentity ==
    [Account |-> "111111111111", Arn |-> "arn:aws:iam::111111111111:user/dev",
     UserId |-> "AIDADEFAULT"]

AssumedIdentity ==
    [Account |-> "222222222222",
     Arn |-> "arn:aws:sts::222222222222:assumed-role/cross-account/session",
     UserId |-> "AROAROLE:session"]

\* sts.get_caller_identity answers with the principal of the client's credentials.
CallerIdentity(client) ==
    IF client.source = "default-chain" \/ client.creds = DefaultCreds
    THEN DefaultIdentity
    ELSE AssumedIdentity

IdentityOutcomes ==
    {[ok |-> TRUE, exc |-> NoExc],
     [ok |-> FALSE, exc |-> Exc("ClientError", <<"InvalidClientTokenId: The security token included in the request is invalid">>)]}

GetCallerIdentityCall(client) == Call("sts:GetCallerIdentity", client, [none |-> TRUE])

test_credentials(r) ==
    /\ task[r].pc = "idle"
    /\ \E answer \in IdentityOutcomes :
         LET t == [task[r] EXCEPT !.endpoint = "/test-credentials"]
             c == GetCallerIdentityCall(DefaultClient)
             identity == CallerIdentity(DefaultClient)
         IN  IF answer.ok
             THEN Finish(r, [t EXCEPT !.identity = identity],
                         [status |-> 200,
                          content |-> [account |-> identity.Account, user_arn |-> identity.Arn,
                                       user_id |-> identity.UserId]],
                         <<Issued(c, answer)>>, {})
             ELSE Finish(r, t, Render(HTTPException(500, Str(answer.exc))), <<Issued(c, answer)>>,
                         {[line |-> 214, text |-> <<"Credentials test failed: ">> \o Str(answer.exc)]})

\* ------------------------------------------------------ POST /debug-apigw
\* f"{x}": None prints as the text None.
Fmt(x) == IF x = NONE THEN "None" ELSE x

\* Variant: the secret access key is masked in the log.
debug_log_credentials_masked(credentials) ==
    {[line |-> 233, text |-> <<"Access Key ID: ", Fmt(credentials.access_key)>>],
     [line |-> 234, text |-> <<"Secret Access Key: ", "****">>],
     [line |-> 235, text |-> <<"Session Token: ",
                               IF Truthy(credentials.token) THEN Fmt(credentials.token) ELSE "None">>]}

\* Lines 233-235: the credentials as logged.
debug_log_credentials(credentials) ==
    {[line |-> 233, text |-> <<"Access Key ID: ", Fmt(credentials.access_key)>>],
     [line |-> 234, text |-> <<"Secret Access Key: ", Fmt(credentials.secret_key)>>],
     [line |-> 235, text |-> <<"Session Token: ",
                               IF Truthy(credentials.token) THEN Fmt(credentials.token) ELSE "None">>]}

\* Variant: the identity is looked up with the credentials just obtained.
debug_identity_client_assumed(credentials) == ExplicitClient(credentials)

\* Line 239: the STS client of the identity lookup.
debug_identity_client(credentials) == DefaultClient

\* Variant: the service's own status is reported in place of the upstream's.
debug_api_gateway_return_own_status(identity, response, aws_request, credentials, request) ==
    [status |-> 200,
     content |-> [current_identity |-> identity,
                  status_code |-> 200,
                  response_headers |-> response.headers,
                  response_body |-> response.text,
                  request_headers_sent |-> aws_request.headers,
                  credentials_used |->
                      [access_key_id |-> credentials.access_key,
                       secret_access_key |-> credentials.secret_key,
                       session_token |-> IF Truthy(credentials.token) THEN credentials.token ELSE NONE],
                  request_info |-> [method |-> request.method, url |-> request.api_gateway_url,
                                    region |-> request.region, body |-> request.body]]]

\* Lines 292-309: the handler's return value (status 200).
debug_api_gateway_return(identity, response, aws_request, credentials, request) ==
    [status |-> 200,
     content |-> [current_identity |-> identity,
                  status_code |-> response.status_code,
                  response_headers |-> response.headers,
                  response_body |-> response.text,
                  request_headers_sent |-> aws_request.headers,
                  credentials_used |->
                      [access_key_id |-> credentials.access_key,
                       secret_access_key |-> credentials.secret_key,
                       session_token |-> IF Truthy(credentials.token) THEN credentials.token ELSE NONE],
                  request_info |-> [method |-> request.method, url |-> request.api_gateway_url,
                                    region |-> request.region, body |-> request.body]]]

\* Lines 311-313: the except clause.
debug_api_gateway_except(e) == Render(HTTPException(500, Str(e)))

debug_api_gateway_except_log(e) == {[line |-> 312, text |-> <<"Debug request failed: ">> \o Str(e)]}

\* Lines 223-236: obtain the credentials and log them.
debug_api_gateway_credentials(r) ==
    /\ task[r].pc = "idle"
    /\ \E request \in APIGatewayRequest :
       \E sts \in StsFor(request.assume_role_arn), chain \in ChainFor(request.assume_role_arn) :
         LET got == get_credentials(request.assume_role_arn, sts, chain)
             t0 == [task[r] EXCEPT !.endpoint = "/debug-apigw", !.request = request]
             lg == {[line |-> 224, text |-> <<"Debug: Calling API Gateway: ", request.api_gateway_url>>]}
                     \cup got.logs
             cs == got.calls
         IN  IF got.raised
             THEN Finish(r, t0, debug_api_gateway_except(got.exc), cs,
                         lg \cup debug_api_gateway_except_log(got.exc))
             ELSE Continue(r, [t0 EXCEPT !.pc = "debug_identity", !.credentials = got.value],
                           cs, lg \cup debug_log_credentials(got.value))

\* Lines 239-280: look up the caller identity, build, sign and log the request.
debug_api_gateway_identity(r) ==
    /\ task[r].pc = "debug_identity"
    /\ \E answer \in IdentityOutcomes :
         LET t == task[r]
             client == debug_identity_client(t.credentials)
             c == GetCallerIdentityCall(client)
             identity == CallerIdentity(client)
             aws_request == SigV4Auth_add_auth(t.credentials, "execute-api", t.request.region,
                                               AWSRequest(t.request))
         IN  IF answer.ok
             THEN Continue(r,
                           [t EXCEPT !.pc = "debug_send", !.identity = identity,
                                     !.aws_request = aws_request],
                           <<Issued(c, answer)>>,
                           {[line |-> 241, text |-> <<"Current identity: ", identity.Arn>>],
                            [line |-> 270, text |-> <<"Method: ", t.request.method>>],
                            [line |-> 271, text |-> <<"URL: ", t.request.api_gateway_url>>],
                            [line |-> 272, text |-> <<"Region: ", t.request.region>>],
                            [line |-> 273, text |-> <<"Service: execute-api">>],
                            [line |-> 274, text |-> <<"Body: ", Fmt(t.request.body)>>],
                            [line |-> 279, text |-> <<"Host: ", aws_request.headers.Host>>],
                            [line |-> 279, text |-> <<"Content-Type: ", aws_request.headers.ContentType>>],
                            [line |-> 279, text |-> <<"Authorization: ", aws_request.headers.Authorization.access_key>>]}
                           \cup IF Truthy(aws_request.headers.XAmzSecurityToken)
                                THEN {[line |-> 279, text |-> <<"X-Amz-Security-Token: ",
                                                                aws_request.headers.XAmzSecurityToken>>]}
                                ELSE {})
             ELSE Finish(r, t, debug_api_gateway_except(answer.exc), <<Issued(c, answer)>>,
                         debug_api_gateway_except_log(answer.exc))

\* Lines 283-313: send the signed request and answer.
debug_api_gateway_send(r) ==
    /\ task[r].pc = "debug_send"
    /\ \E response \in HttpOutcomes :
         LET t == task[r]
             cs == <<Issued(HttpCall(t.request, t.aws_request), response)>>
         IN  IF response.ok
             THEN Finish(r, t,
                         debug_api_gateway_return(t.identity, response, t.aws_request,
                                                  t.credentials, t.request),
                         cs, {})
             ELSE Finish(r, t, debug_api_gateway_except(response.exc), cs,
                         debug_api_gateway_except_log(response.exc))

\* ----------------------------------------------------------- specification
Next ==
    \E r \in Req :
        \/ root(r)
        \/ call_api_gateway_sign(r)
        \/ call_api_gateway_send(r)
        \/ upload_to_s3_client(r)
        \/ upload_to_s3_put(r)
        \/ test_credentials(r)
        \/ debug_api_gateway_credentials(r)
        \/ debug_api_gateway_identity(r)
        \/ debug_api_gateway_send(r)

Spec == Init /\ [][Next]_vars

\* ================================================================= claims
Done(r) == task[r].pc = "done"

\* The response the client of request r received.
Resp(r) == responses[r][1]

\* The positions in request r's call trace of the calls of operation op.
CallsOf(r, op) == {i \in DOMAIN calls[r] : calls[r][i].op = op}

Failed(r, op) == {i \in CallsOf(r, op) : ~calls[r][i].ok}

\* The credentials a successful sts.assume_role answered with.
AnsweredCreds(sts) ==
    Creds(sts.Credentials.AccessKeyId, sts.Credentials.SecretAccessKey,
          sts.Credentials.SessionToken)

\* ---------------------------------------------------------------------- C1
\* The form field `request` is no JSON, or JSON without bucket_name or object_key.
BadForm(form) ==
    form.json # "object" \/ form.bucket_name = ABSENT \/ form.object_key = ABSENT

\* C1: every POST /bucket whose form field `request` is not valid JSON, or
\* lacks bucket_name or object_key, is answered with status 400 (not 500),
\* and no STS or S3 call is made for it.
C1_BadFormAnswered400 ==
    \A r \in Req :
        (Done(r) /\ task[r].endpoint = "/bucket" /\ BadForm(task[r].request.form))
        => (Resp(r).status = 400 /\ calls[r] = <<>>)

\* ---------------------------------------------------------------------- C2
\* C2: in /apigw and /debug-apigw, when role assumption or the proxied
\* request fails, the response has status 500 and its body carries the text
\* of the underlying exception; such a failure is never answered with a
\* success status.
C2_FailureAnswered500WithText ==
    \A r \in Req :
        (Done(r) /\ task[r].endpoint \in {"/apigw", "/debug-apigw"})
        => \A i \in Failed(r, "sts:AssumeRole") \cup Failed(r, "http") :
               /\ Resp(r).status = 500
               /\ Contains(Resp(r).content.detail, calls[r][i].answer.exc.detail)

\* Witness of C2: a /apigw request whose proxied request failed and a
\* /debug-apigw request whose role assumption failed have both been answered.
C2_Witness ==
    \E r, q \in Req :
        /\ Done(r) /\ task[r].endpoint = "/apigw" /\ Failed(r, "http") # {}
        /\ Done(q) /\ task[q].endpoint = "/debug-apigw" /\ Failed(q, "sts:AssumeRole") # {}

\* ---------------------------------------------------------------------- C3
\* The handlers that call get_credentials, past that call.
UsesGetCredentials(r) ==
    task[r].endpoint \in {"/apigw", "/debug-apigw"} /\ task[r].pc # "idle"

\* C3: with a role ARN, sts.assume_role is called exactly once with that ARN,
\* the credentials are exactly those of its response and the default chain
\* is not consulted; without one, assume_role is never called and the
\* default chain's credentials are returned, or 500 'No AWS credentials
\* found' is raised when the chain yields none.
C3_CredentialResolution ==
    \A r \in Req :
        UsesGetCredentials(r) =>
            LET arn == task[r].request.assume_role_arn
                sts == CallsOf(r, "sts:AssumeRole")
                chain == CallsOf(r, "Session.get_credentials")
            IN  IF Truthy(arn)
                THEN /\ Cardinality(sts) = 1
                     /\ chain = {}
                     /\ \A i \in sts :
                          /\ calls[r][i].args.RoleArn = arn
                          /\ calls[r][i].ok => task[r].credentials = AnsweredCreds(calls[r][i].answer)
                ELSE /\ sts = {}
                     /\ Cardinality(chain) = 1
                     /\ \A i \in chain :
                          IF calls[r][i].answer.creds # NoCreds
                          THEN task[r].credentials = calls[r][i].answer.creds
                          ELSE /\ Done(r)
                               /\ Resp(r).status = 500
                               /\ Contains(Resp(r).content.detail, <<"No AWS credentials found">>)

\* Witness of C3: one request resolved a role ARN to the STS response's
\* credentials, another got none from the default chain.
C3_Witness ==
    \E r, q \in Req :
        /\ UsesGetCredentials(r) /\ Truthy(task[r].request.assume_role_arn)
        /\ \E i \in CallsOf(r, "sts:AssumeRole") :
             calls[r][i].ok /\ task[r].credentials = AnsweredCreds(calls[r][i].answer)
        /\ UsesGetCredentials(q) /\ task[q].request.assume_role_arn = ""
        /\ \E i \in CallsOf(q, "Session.get_credentials") : ~calls[q][i].ok

\* ---------------------------------------------------------------------- C4
\* The proxied requests that request r sent.
SentRequests(r) == {calls[r][i].args : i \in CallsOf(r, "http")}

IsCredentialCall(c) == c.op \in {"sts:AssumeRole", "Session.get_credentials"}

\* What the credential provider and STS answered to get_credentials.
CredentialCalls(r) == SelectSeq(calls[r], IsCredentialCall)

HttpAnswers(r) == {calls[r][i].answer : i \in CallsOf(r, "http")}

\* The dependencies behaved alike towards r and q: the same answers to
\* get_credentials, and the same answer of the proxied server where both asked.
SameDependencyBehaviour(r, q) ==
    /\ CredentialCalls(r) = CredentialCalls(q)
    /\ (HttpAnswers(r) # {} /\ HttpAnswers(q) # {}) => HttpAnswers(r) = HttpAnswers(q)

\* r is a finished /apigw request and q a finished /debug-apigw request with
\* the same payload.
TwinRequests(r, q) ==
    /\ Done(r) /\ task[r].endpoint = "/apigw"
    /\ Done(q) /\ task[q].endpoint = "/debug-apigw"
    /\ task[r].request = task[q].request

\* /debug-apigw (q) did what /apigw (r) did: the same signed request sent,
\* the same outcome, the same upstream status, headers and body reported,
\* plus the credential fields.
SameOutcome(r, q) ==
    /\ SentRequests(r) = SentRequests(q)
    /\ Resp(r).status = Resp(q).status
    /\ Resp(r).status = 200 =>
         /\ Resp(q).content.status_code = Resp(r).content.status_code
         /\ Resp(q).content.response_headers = Resp(r).content.headers
         /\ Resp(q).content.response_body = Resp(r).content.body
         /\ Resp(q).content.request_headers_sent = Resp(r).content.request_headers_sent
         /\ Resp(q).content.credentials_used.access_key_id = task[r].credentials.access_key
         /\ Resp(q).content.credentials_used.secret_access_key = task[r].credentials.secret_key

\* C4 as stated: /debug-apigw is the same as /apigw: for the same payload
\* and the same behaviour of the dependencies both send the same signed
\* request and deliver the same outcome.
C4_DebugSameAsApigw ==
    \A r, q \in Req :
        (TwinRequests(r, q) /\ SameDependencyBehaviour(r, q)) => SameOutcome(r, q)

\* C4 as amended: the same, provided the identity lookup that /debug-apigw
\* makes before signing succeeds; when it fails, /debug-apigw answers 500
\* and sends nothing.
C4_DebugSameAsApigwWhenIdentityKnown ==
    /\ \A r, q \in Req :
         (/\ TwinRequests(r, q)
          /\ SameDependencyBehaviour(r, q)
          /\ Failed(q, "sts:GetCallerIdentity") = {})
         => SameOutcome(r, q)
    /\ \A q \in Req :
         (Done(q) /\ task[q].endpoint = "/debug-apigw" /\ Failed(q, "sts:GetCallerIdentity") # {})
         => (Resp(q).status = 500 /\ SentRequests(q) = {})

\* Witness of C4: twin requests that both reached the proxied server and
\* got an upstream error status passed through.
C4_Witness ==
    \E r, q \in Req :
        /\ TwinRequests(r, q) /\ SameDependencyBehaviour(r, q)
        /\ SentRequests(r) # {} /\ SentRequests(q) # {}
        /\ Resp(r).status = 200 /\ Resp(q).status = 200
        /\ Resp(q).content.status_code = 403

\* ---------------------------------------------------------------------- C5
\* The text the handler of request r logged at a source line.
LoggedAt(r, line) == {e.text : e \in {x \in log[r] : x.line = line}}

\* C5: in every successful /debug-apigw response the credentials_used
\* fields are the values the handler logged for that request, and they are
\* the credentials the outgoing request was signed with.
C5_DebugCredentialsAsLoggedAndSigned ==
    \A r \in Req :
        (Done(r) /\ task[r].endpoint = "/debug-apigw" /\ Resp(r).status = 200) =>
            LET used == Resp(r).content.credentials_used
            IN  /\ LoggedAt(r, 233) = {<<"Access Key ID: ", Fmt(used.access_key_id)>>}
                /\ LoggedAt(r, 234) = {<<"Secret Access Key: ", Fmt(used.secret_access_key)>>}
                /\ LoggedAt(r, 235) = {<<"Session Token: ", Fmt(used.session_token)>>}
                /\ SentRequests(r) # {}
                /\ \A sent \in SentRequests(r) :
                     /\ sent.headers.Authorization.access_key = used.access_key_id
                     /\ sent.headers.Authorization.signing_key = used.secret_access_key
                     /\ sent.headers.XAmzSecurityToken = used.session_token

\* Witness of C5: successful debug responses with a session token and
\* without one.
C5_Witness ==
    \E r, q \in Req :
        /\ Done(r) /\ task[r].endpoint = "/debug-apigw" /\ Resp(r).status = 200
        /\ Resp(r).content.credentials_used.session_token = NONE
        /\ Done(q) /\ task[q].endpoint = "/debug-apigw" /\ Resp(q).status = 200
        /\ Resp(q).content.credentials_used.session_token # NONE

\* ---------------------------------------------------------------------- C6
OutboundOps == {"sts:AssumeRole", "sts:GetCallerIdentity", "s3:PutObject", "http"}

\* Some step of request r's handler can be taken.
CanStep(r) ==
    \/ ENABLED call_api_gateway_send(r)
    \/ ENABLED upload_to_s3_put(r)
    \/ ENABLED debug_api_gateway_identity(r)
    \/ ENABLED debug_api_gateway_send(r)

\* C6: no retry: within one invocation each outbound operation is issued at
\* most once, after a failed one no further outbound operation is issued,
\* and every invocation ends with exactly one response (an invocation under
\* way has none yet and can always take its next step).
C6_NoRetryOneResponse ==
    \A r \in Req :
        /\ \A op \in OutboundOps : Cardinality(CallsOf(r, op)) <= 1
        /\ \A i \in DOMAIN calls[r] : ~calls[r][i].ok => i = Len(calls[r])
        /\ Len(responses[r]) = IF Done(r) THEN 1 ELSE 0
        /\ (\E i \in DOMAIN calls[r] : ~calls[r][i].ok) => Done(r)
        /\ task[r].pc \notin {"idle", "done"} => CanStep(r)

\* Witness of C6: a request ended after its second outbound call failed, and
\* another one after its third.
C6_Witness ==
    \E r, q \in Req :
        /\ Done(r) /\ Len(calls[r]) = 2 /\ ~calls[r][2].ok /\ Len(responses[r]) = 1
        /\ Done(q) /\ Len(calls[q]) = 3 /\ ~calls[q][3].ok /\ Len(responses[q]) = 1

\* ---------------------------------------------------------------------- C7
\* The credentials the dependencies handed to request r itself.
OwnCredentials(r) ==
    {AnsweredCreds(calls[r][i].answer) :
        i \in {j \in CallsOf(r, "sts:AssumeRole") : calls[r][j].ok}}
    \cup {calls[r][i].answer.creds :
            i \in {j \in CallsOf(r, "Session.get_credentials") : calls[r][j].ok}}

SignedWith(headers, c) ==
    /\ headers.Authorization.access_key = c.access_key
    /\ headers.Authorization.signing_key = c.secret_key
    /\ headers.XAmzSecurityToken = IF Truthy(c.token) THEN c.token ELSE NONE

\* What the dependencies answered to request r's calls, in order.
Answers(r) == [i \in DOMAIN calls[r] |-> calls[r][i].answer]

\* C7: handlers are independent under any interleaving: the credentials a
\* request signs or uploads with are those handed to that request, what it
\* sends is its own payload, and two requests with the same endpoint,
\* payload and dependency answers are in the same position with the same
\* calls, log records and response, whatever else ran in between.
C7_RequestsIndependent ==
    /\ \A r \in Req :
         /\ task[r].credentials # NoCreds => task[r].credentials \in OwnCredentials(r)
         /\ task[r].s3_client.source = "explicit" => task[r].s3_client.creds \in OwnCredentials(r)
         /\ \A i \in CallsOf(r, "http") :
              /\ calls[r][i].args.url = task[r].request.api_gateway_url
              /\ calls[r][i].args.method = task[r].request.method
              /\ calls[r][i].args.data = task[r].request.body
              /\ \E c \in OwnCredentials(r) : SignedWith(calls[r][i].args.headers, c)
         /\ \A i \in CallsOf(r, "s3:PutObject") :
              /\ calls[r][i].args.Bucket = task[r].request.form.bucket_name
              /\ calls[r][i].args.Key = task[r].request.form.object_key
              /\ calls[r][i].args.Body = task[r].request.file.content
              /\ calls[r][i].client.source = "explicit" =>
                     calls[r][i].client.creds \in OwnCredentials(r)
    /\ \A r, q \in Req :
         (/\ task[r].endpoint = task[q].endpoint
          /\ task[r].request = task[q].request
          /\ Answers(r) = Answers(q))
         => (/\ task[r] = task[q]
             /\ calls[r] = calls[q]
             /\ responses[r] = responses[q]
             /\ log[r] = log[q])

\* Witness of C7: while a request holding assumed-role credentials is still
\* under way, a request without a role ARN was signed with the default
\* chain's credentials and sent.
C7_Witness ==
    \E r, q \in Req :
        /\ r # q
        /\ task[r].pc \in {"apigw_send", "debug_identity", "debug_send", "bucket_put"}
        /\ \E i \in CallsOf(r, "sts:AssumeRole") : calls[r][i].ok
        /\ task[q].credentials = DefaultCreds
        /\ CallsOf(q, "http") # {}
        /\ \E i \in CallsOf(q, "Session.get_credentials") : calls[q][i].ok

\* ---------------------------------------------------------------------- C8
\* C8: /apigw passes the upstream reply through: whenever the proxied
\* request completes with a response, whatever its status code, the handler
\* succeeds and returns that status code, headers and body unchanged.
C8_UpstreamReplyPassedThrough ==
    \A r \in Req :
        (Done(r) /\ task[r].endpoint = "/apigw") =>
            \A i \in CallsOf(r, "http") :
                calls[r][i].ok =>
                    /\ Resp(r).status = 200
                    /\ Resp(r).content.status_code = calls[r][i].answer.status_code
                    /\ Resp(r).content.headers = calls[r][i].answer.headers
                    /\ Resp(r).content.body = calls[r][i].answer.text

\* Witness of C8: upstream replies 403 and 500 were both passed through.
C8_Witness ==
    \E r, q \in Req :
        /\ Done(r) /\ task[r].endpoint = "/apigw" /\ Resp(r).status = 200
        /\ Resp(r).content.status_code = 403
        /\ Done(q) /\ task[q].endpoint = "/apigw" /\ Resp(q).status = 200
        /\ Resp(q).content.status_code = 500

\* ---------------------------------------------------------------------- C9
\* The role ARN request r supplied (None when it has none).
SuppliedArn(r) ==
    IF task[r].endpoint \in {"/apigw", "/debug-apigw"}
    THEN task[r].request.assume_role_arn
    ELSE IF task[r].endpoint = "/bucket"
    THEN upload_to_s3_parse(task[r].request.form).value.assume_role_arn
    ELSE NONE

\* C9: the proxied request is sent only after credentials were obtained and
\* the request was signed with them; put_object is called only after the S3
\* client was built; after a failed assume_role neither is issued; and a
\* request that supplied a role ARN is never signed or uploaded with the
\* default chain's credentials.
C9_OrderingNoFallback ==
    \A r \in Req :
        /\ \A i \in CallsOf(r, "http") :
             /\ task[r].credentials # NoCreds
             /\ \E j \in 1..(i - 1) : IsCredentialCall(calls[r][j]) /\ calls[r][j].ok
             /\ calls[r][i].args.headers = task[r].aws_request.headers
             /\ SignedWith(calls[r][i].args.headers, task[r].credentials)
        /\ \A i \in CallsOf(r, "s3:PutObject") :
             /\ task[r].s3_client # NoClient
             /\ calls[r][i].client = task[r].s3_client
        /\ Failed(r, "sts:AssumeRole") # {} =>
             (CallsOf(r, "http") = {} /\ CallsOf(r, "s3:PutObject") = {})
        /\ Truthy(SuppliedArn(r)) =>
             /\ CallsOf(r, "Session.get_credentials") = {}
             /\ \A i \in CallsOf(r, "http") : ~SignedWith(calls[r][i].args.headers, DefaultCreds)
             /\ \A i \in CallsOf(r, "s3:PutObject") : calls[r][i].client.source = "explicit"
             /\ \A i \in CallsOf(r, "http") \cup CallsOf(r, "s3:PutObject") :
                  \E j \in 1..(i - 1) : calls[r][j].op = "sts:AssumeRole" /\ calls[r][j].ok

\* Witness of C9: a request with a role ARN ended on a failed assume_role,
\* and an upload with a role ARN put its object with the assumed credentials.
C9_Witness ==
    \E r, q \in Req :
        /\ Done(r) /\ Truthy(SuppliedArn(r)) /\ Failed(r, "sts:AssumeRole") # {}
        /\ Done(q) /\ Truthy(SuppliedArn(q)) /\ task[q].endpoint = "/bucket"
        /\ \E i \in CallsOf(q, "s3:PutObject") : calls[q][i].ok

\* --------------------------------------------------------------------- C10
\* C10: in /debug-apigw the identity is looked up with a default-chain STS
\* client, never with the assumed-role credentials, so current_identity is
\* always the default chain's identity; a failed lookup ends the request
\* with 500 before any proxied request is sent.
C10_IdentityOfDefaultChain ==
    \A r \in Req :
        task[r].endpoint = "/debug-apigw" =>
            /\ \A i \in CallsOf(r, "sts:GetCallerIdentity") :
                 /\ calls[r][i].client = DefaultClient
                 /\ \A j \in CallsOf(r, "http") : i < j
            /\ (Done(r) /\ Resp(r).status = 200) =>
                 Resp(r).content.current_identity = DefaultIdentity
            /\ (Done(r) /\ Failed(r, "sts:GetCallerIdentity") # {}) =>
                 (Resp(r).status = 500 /\ CallsOf(r, "http") = {})

\* Witness of C10: a successful debug response whose credentials_used are
\* the assumed role's while current_identity names the default principal,
\* and a debug request ended by a failed identity lookup.
C10_Witness ==
    \E r, q \in Req :
        /\ Done(r) /\ task[r].endpoint = "/debug-apigw" /\ Resp(r).status = 200
        /\ Truthy(task[r].request.assume_role_arn)
        /\ Resp(r).content.credentials_used.access_key_id # DefaultCreds.access_key
        /\ Resp(r).content.current_identity = DefaultIdentity
        /\ Done(q) /\ task[q].endpoint = "/debug-apigw"
        /\ Failed(q, "sts:GetCallerIdentity") # {}

====
